---- MODULE Spec2Model ----
(***************************************************************************)
(* A model of eicg: the lexer (internal/lexer), the recursive-descent      *)
(* parser (internal/parser) and the Python printer (internal/printer).     *)
(*                                                                         *)
(* A source is a sequence of runes; a rune is a one-character string.      *)
(* A text produced by the printer is the sequence of the pieces that       *)
(* fmt.Sprintf and strings.Join concatenate, so that \o is concatenation.  *)
(***************************************************************************)
EXTENDS Integers, Sequences, FiniteSets, TLC

VARIABLES src,      \* the runes behind Lexer.source
          lex,      \* the Lexer: read position, row, col, tokenQueue
          op,       \* the operation performed last
          arg,      \* its argument (count of Peek / MustPeek), 0 if none
          pre,      \* the Lexer as it was before that operation
          ret,      \* what that operation returned
          removed,  \* the TokenResults taken from the front so far, in order
          fatal,    \* log.Fatal was called: the process is gone
          twin,     \* a second source, tokenized beside src for comparison
          ast,      \* the Statement handed to Printer.String
          printer,  \* the python.Printer: usingAssocBuiltin, usingPrintBuiltin
          out       \* what Printer.String returned

vars == <<src, lex, op, arg, pre, ret, removed, fatal, twin, ast, printer, out>>

(***************************************************************************)
(* Bounds of the model.                                                    *)
(***************************************************************************)
MaxSrcLen == 3      \* runes in a source of the lexer specification
MaxPeek == 2        \* largest count passed to Peek / MustPeek
MaxRemoved == 3     \* front removals followed in one behaviour

(***************************************************************************)
(* Runes.                                                                  *)
(***************************************************************************)
Letters == {"a", "b"}
Digits == {"1", "2"}

IsLetter(r) == r \in Letters
IsDigit(r) == r \in Digits

(***************************************************************************)
(* Tokens (lexer.go 306-377).                                              *)
(***************************************************************************)
Location(row, col) == [Row |-> row, Col |-> col]

Token(typ, value, loc) == [Typ |-> typ, Value |-> value, Location |-> loc]

UnknownToken == Token("TokenUnknown", <<"<unknown>">>, Location(0, 0))

TokenResult(token, err) == [Token |-> token, Error |-> err]

\* The result of one call of next(): the reader state left behind and the pair returned.
Scanned(pos, row, col, token, err) ==
    [pos |-> pos, row |-> row, col |-> col, Token |-> token, Error |-> err]

\* bufio.Reader.ReadBytes('\n') from position pos: the position after the first
\* newline at or after pos + 1, or 0 when there is none (io.EOF).
RECURSIVE ReadBytesNewline(_, _)
ReadBytesNewline(s, pos) ==
    IF pos >= Len(s) THEN 0
    ELSE IF s[pos + 1] = "\n" THEN pos + 1
    ELSE ReadBytesNewline(s, pos + 1)

(***************************************************************************)
(* Lexer.next (lexer.go 126-297).  st holds the locals of the call.        *)
(***************************************************************************)
NextLocals == [name |-> <<>>, number |-> <<>>, searchName |-> FALSE,
               searchNumber |-> FALSE, maybeComment |-> FALSE]

RECURSIVE nextLoop(_, _, _, _, _)
nextLoop(s, pos, row, col, st) ==
    IF pos >= Len(s)
    THEN \* ReadRune returns io.EOF
         Scanned(pos, row, col, UnknownToken, "EOF")
    ELSE LET r == s[pos + 1]
             p1 == pos + 1
         IN
         IF st.searchName
         THEN IF IsDigit(r) \/ IsLetter(r)
              THEN nextLoop(s, p1, row, col + 1, [st EXCEPT !.name = Append(@, r)])
              ELSE \* UnreadRune
                   Scanned(pos, row, col,
                           Token("TokenName", st.name, Location(row, col - Len(st.name))),
                           "nil")
         ELSE IF st.searchNumber
         THEN IF IsDigit(r)
              THEN nextLoop(s, p1, row, col + 1, [st EXCEPT !.number = Append(@, r)])
              ELSE Scanned(pos, row, col,
                           Token("TokenNumber", st.number, Location(row, col - Len(st.number))),
                           "nil")
         ELSE IF IsLetter(r)
         THEN nextLoop(s, p1, row, col + 1,
                       [st EXCEPT !.name = Append(@, r), !.searchName = TRUE])
         ELSE IF IsDigit(r)
         THEN nextLoop(s, p1, row, col + 1,
                       [st EXCEPT !.number = Append(@, r), !.searchNumber = TRUE])
         ELSE IF r = "="
         THEN Scanned(p1, row, col, Token("TokenEquals", <<"=">>, Location(0, 0)), "nil")
         ELSE IF r \in {"\n", "\f", "\r"}
         THEN nextLoop(s, p1, row + 1, 0, st)
         ELSE IF r \in {" ", "\t"}
         THEN nextLoop(s, p1, row, col + 1, st)
         ELSE IF r = "/"
         THEN IF st.maybeComment
              THEN LET q == ReadBytesNewline(s, p1)
                   IN IF q = 0
                      THEN Scanned(Len(s), row, col, UnknownToken, "EOF")
                      ELSE nextLoop(s, q, row, col, [st EXCEPT !.maybeComment = FALSE])
              ELSE nextLoop(s, p1, row, col, [st EXCEPT !.maybeComment = TRUE])
         ELSE IF r = "["
         THEN Scanned(p1, row, col, Token("TokenSquareBracketOpen", <<"[">>, Location(row, col)), "nil")
         ELSE IF r = "]"
         THEN Scanned(p1, row, col, Token("TokenSquareBracketClose", <<"]">>, Location(row, col)), "nil")
         ELSE IF r = ","
         THEN Scanned(p1, row, col, Token("TokenComma", <<",">>, Location(row, col)), "nil")
         ELSE \* any other rune: break out of the loop
              Scanned(p1, row, col, UnknownToken, "EOF")

next(s, l) == nextLoop(s, l.pos, l.row, l.col, NextLocals)

\* Lexer.lognext (lexer.go 117-123): next, and a line on stdout.
lognext(s, l) == next(s, l)

(***************************************************************************)
(* The Lexer (lexer.go 11-33) and its operations.  Each operation yields   *)
(* the Lexer it leaves, the pair it returns and whether it ended the       *)
(* process with log.Fatal.  Beside the fields of the struct the Lexer      *)
(* keeps count of what was done to it: scans, the results taken from the   *)
(* source by lognext; taken, the results removed from the front; held, the *)
(* most entries the tokenQueue held since the operation under way began;   *)
(* starved, the calls of Consume that found the tokenQueue empty.          *)
(***************************************************************************)
NewLexer == [pos |-> 0, row |-> 0, col |-> 0, tokenQueue |-> <<>>,
             scans |-> 0, taken |-> 0, held |-> 0, starved |-> 0]

\* The fields of the struct (lexer.go 11-26), the read position of source included.
Fields(l) == [pos |-> l.pos, row |-> l.row, col |-> l.col, tokenQueue |-> l.tokenQueue]

\* The Lexer as an operation called from outside finds it.
Entered(l) == [l EXCEPT !.held = Len(l.tokenQueue)]

Max(a, b) == IF a >= b THEN a ELSE b

NoResult == TokenResult(UnknownToken, "none")

LexOut(l, res, dead) == [lex |-> l, Token |-> res.Token, Error |-> res.Error, fatal |-> dead]

\* One pass of the loop body of Peek / MustPeek: scan and append, error or not.
AppendScanned(s, l) ==
    LET t == lognext(s, l)
    IN [l EXCEPT !.pos = t.pos, !.row = t.row, !.col = t.col,
                 !.tokenQueue = Append(@, TokenResult(t.Token, t.Error)),
                 !.scans = @ + 1,
                 !.held = Max(@, Len(l.tokenQueue) + 1)]

\* for i := len(l.tokenQueue); i < count; i += 1 { ... }
RECURSIVE FillQueue(_, _, _, _)

\* A loop that runs once more than asked: i <= count.
FillQueueOnceMore(s, l, i, count) ==
    IF i <= count THEN FillQueue(s, AppendScanned(s, l), i + 1, count) ELSE l

FillQueue(s, l, i, count) ==
    IF i < count THEN FillQueue(s, AppendScanned(s, l), i + 1, count) ELSE l

\* A Peek whose loop starts at 0 instead of len(l.tokenQueue).
PeekFromZero(s, l, count) ==
    LET l2 == FillQueue(s, l, 0, count)
    IN LexOut(l2, l2.tokenQueue[count], FALSE)

\* Lexer.Peek (lexer.go 46-60)
Peek(s, l, count) ==
    LET l2 == FillQueue(s, l, Len(l.tokenQueue), count)
    IN LexOut(l2, l2.tokenQueue[count], FALSE)

\* Lexer.MustPeek (lexer.go 65-79)
MustPeek(s, l, count) ==
    LET l2 == FillQueue(s, l, Len(l.tokenQueue), count)
        t == l2.tokenQueue[count]
    IN LexOut(l2, t, t.Error # "nil")

\* A Next that always scans the source, whatever the queue holds.
NextIgnoringQueue(s, l) ==
    LET t == lognext(s, l)
    IN LexOut([l EXCEPT !.pos = t.pos, !.row = t.row, !.col = t.col,
                        !.scans = @ + 1, !.taken = @ + 1],
              TokenResult(t.Token, t.Error), FALSE)

\* Lexer.Next (lexer.go 83-94)
Next(s, l) ==
    IF Len(l.tokenQueue) > 0
    THEN LexOut([l EXCEPT !.tokenQueue = Tail(@), !.taken = @ + 1], Head(l.tokenQueue), FALSE)
    ELSE LET t == lognext(s, l)
         IN LexOut([l EXCEPT !.pos = t.pos, !.row = t.row, !.col = t.col,
                             !.scans = @ + 1, !.taken = @ + 1],
                   TokenResult(t.Token, t.Error), FALSE)

\* Lexer.MustNext (lexer.go 97-114)
MustNext(s, l) ==
    IF Len(l.tokenQueue) > 0
    THEN LET t == Head(l.tokenQueue)
         IN IF t.Error # "nil"
            THEN LexOut(l, t, TRUE)
            ELSE LexOut([l EXCEPT !.tokenQueue = Tail(@), !.taken = @ + 1], t, FALSE)
    ELSE LET n == Next(s, l)
         IN [n EXCEPT !.fatal = (n.Error # "nil")]

\* Lexer.Consume (lexer.go 37-43)
Consume(l) ==
    IF Len(l.tokenQueue) < 1
    THEN LexOut([l EXCEPT !.starved = @ + 1], NoResult, TRUE)
    ELSE LexOut([l EXCEPT !.tokenQueue = Tail(@), !.taken = @ + 1], NoResult, FALSE)

(***************************************************************************)
(* The lexer's operations as actions, called in any order on one source.   *)
(***************************************************************************)
LexChars == {"a", "1", "[", "\n", "/", "@"}

SeqsUpTo(S, n) == UNION {[1..k -> S] : k \in 0..n}

NoPrinter == [usingAssocBuiltin |-> FALSE, usingPrintBuiltin |-> FALSE]

PrinterIdle == /\ ast = <<>>
               /\ printer = NoPrinter
               /\ out = <<>>
               /\ twin = <<>>

InitLexer ==
    /\ src \in SeqsUpTo(LexChars, MaxSrcLen)
    /\ lex = NewLexer
    /\ op = "New"
    /\ arg = 0
    /\ pre = NewLexer
    /\ ret = NoResult
    /\ removed = <<>>
    /\ fatal = FALSE
    /\ PrinterIdle

\* What every lexer action does with the result r of its operation.
Called(name, n, r, taken) ==
    /\ op' = name
    /\ arg' = n
    /\ pre' = Entered(lex)
    /\ lex' = r.lex
    /\ ret' = TokenResult(r.Token, r.Error)
    /\ fatal' = r.fatal
    /\ removed' = removed \o taken
    /\ UNCHANGED <<src, twin, ast, printer, out>>

PeekAct ==
    \E n \in 1..MaxPeek :
        /\ ~fatal
        /\ Called("Peek", n, Peek(src, Entered(lex), n), <<>>)

MustPeekAct ==
    \E n \in 1..MaxPeek :
        /\ ~fatal
        /\ Called("MustPeek", n, MustPeek(src, Entered(lex), n), <<>>)

NextAct ==
    /\ ~fatal
    /\ Len(removed) < MaxRemoved
    /\ LET r == Next(src, Entered(lex))
       IN Called("Next", 0, r, <<TokenResult(r.Token, r.Error)>>)

MustNextAct ==
    /\ ~fatal
    /\ Len(removed) < MaxRemoved
    /\ LET r == MustNext(src, Entered(lex))
       IN Called("MustNext", 0, r,
                 IF r.fatal /\ Len(lex.tokenQueue) > 0
                 THEN <<>>
                 ELSE <<TokenResult(r.Token, r.Error)>>)

ConsumeAct ==
    /\ ~fatal
    /\ Len(removed) < MaxRemoved
    /\ LET r == Consume(Entered(lex))
       IN Called("Consume", 0, r, IF r.fatal THEN <<>> ELSE <<Head(lex.tokenQueue)>>)

NextLexer == PeekAct \/ MustPeekAct \/ NextAct \/ MustNextAct \/ ConsumeAct

SpecLexer == InitLexer /\ [][NextLexer]_vars

(***************************************************************************)
(* Reference notions the lexer claims are stated with.                     *)
(***************************************************************************)
\* The pair returned by the n-th of n successive Next calls made on Lexer l.
RECURSIVE NthOfNextCalls(_, _, _)
NthOfNextCalls(s, l, n) ==
    LET r == Next(s, l)
    IN IF n <= 1 THEN TokenResult(r.Token, r.Error) ELSE NthOfNextCalls(s, r.lex, n - 1)

\* The pairs returned by k successive Next calls made on Lexer l.
RECURSIVE NextAlone(_, _, _)
NextAlone(s, l, k) ==
    IF k = 0 THEN <<>>
    ELSE LET r == Next(s, l)
         IN <<TokenResult(r.Token, r.Error)>> \o NextAlone(s, r.lex, k - 1)

IsPrefix(a, b) == Len(a) <= Len(b) /\ SubSeq(b, 1, Len(a)) = a

Layout == {"\n", "\f", "\r", " ", "\t"}

\* Index of the first rune after position p that is neither layout nor part of a
\* comment opened by two consecutive slashes; 0 when the source ends first.
RECURSIVE Significant(_, _)
Significant(s, p) ==
    IF p >= Len(s) THEN 0
    ELSE IF s[p + 1] \in Layout THEN Significant(s, p + 1)
    ELSE IF s[p + 1] = "/" /\ p + 2 <= Len(s) /\ s[p + 2] = "/"
         THEN LET q == ReadBytesNewline(s, p + 2)
              IN IF q = 0 THEN 0 ELSE Significant(s, q)
    ELSE p + 1

\* The last operation scanned the source for one token and returned the outcome.
ScannedOne == op = "Next" /\ Len(pre.tokenQueue) = 0

(***************************************************************************)
(* C1: end-of-stream is returned only when the source is exhausted; a rune *)
(* the lexer does not recognize is never reported as end-of-stream while   *)
(* unread source text remains.                                             *)
(***************************************************************************)
C1_EndOfStreamOnlyWhenExhausted ==
    (op \in {"Next", "Peek"} /\ ret.Error = "EOF") => lex.pos = Len(src)

(***************************************************************************)
(* C5: Peek(n) (and MustPeek(n)) returns what the n-th of n successive     *)
(* Next calls would return, removes nothing from the lookahead buffer, and *)
(* a second Peek(n) returns the same and leaves buffer and read position   *)
(* unchanged.                                                              *)
(***************************************************************************)
C5_PeekIsNthNext ==
    /\ op \in {"Peek", "MustPeek"} =>
          /\ ret = NthOfNextCalls(src, pre, arg)
          /\ IsPrefix(pre.tokenQueue, lex.tokenQueue)
    /\ op = "Peek" =>
          LET again == Peek(src, lex, arg)
          IN /\ Fields(again.lex) = Fields(lex)
             /\ TokenResult(again.Token, again.Error) = ret

\* A Peek(2) that found one token buffered, scanned one more and returned it.
C5_Witness ==
    /\ op = "Peek"
    /\ arg = 2
    /\ Len(pre.tokenQueue) = 1
    /\ pre.pos < lex.pos
    /\ ret.Error = "nil"
    /\ ret # Head(lex.tokenQueue)

(***************************************************************************)
(* C6: whatever the interleaving of Peek, MustPeek, Next, MustNext and     *)
(* Consume, the tokens removed from the front are the tokens Next alone    *)
(* returns on the same source, in order; Next serves the buffer first and  *)
(* scans the source only when the buffer is empty.                         *)
(***************************************************************************)
C6_RemovedIsNextAlone ==
    /\ removed = NextAlone(src, NewLexer, Len(removed))
    /\ (op = "Next" /\ Len(pre.tokenQueue) > 0) =>
          /\ ret = Head(pre.tokenQueue)
          /\ Fields(lex) = [Fields(pre) EXCEPT !.tokenQueue = Tail(@)]
    /\ (op = "Next" /\ Len(pre.tokenQueue) = 0) =>
          /\ lex.tokenQueue = <<>>
          /\ LET t == lognext(src, pre)
             IN ret = TokenResult(t.Token, t.Error) /\ lex.pos = t.pos

\* Two real tokens are gone from the front, the second by Consume, one is still buffered.
C6_Witness ==
    /\ op = "Consume"
    /\ ~fatal
    /\ Len(removed) = 2
    /\ removed[1].Error = "nil"
    /\ removed[2].Error = "nil"
    /\ removed[1] # removed[2]
    /\ Len(lex.tokenQueue) = 1

(***************************************************************************)
(* C8: a '/' that is not followed by another '/' makes tokenization fail   *)
(* with an error; it is never silently skipped.                            *)
(***************************************************************************)
C8_LoneSlashIsAnError ==
    ScannedOne =>
        LET i == Significant(src, pre.pos)
        IN (i # 0 /\ src[i] = "/") => ret.Error # "nil"

(***************************************************************************)
(* The AST (parser/types.go 15-49).                                        *)
(***************************************************************************)
VariableReferenceExpression(v) == [kind |-> "VariableReference", Value |-> v]

LiteralNumberExpression(v) == [kind |-> "LiteralNumber", Value |-> v]

CallExpression(call, args) == [kind |-> "Call", Call |-> call, Args |-> args]

AssignmentExpression(lhs, rhs) == [kind |-> "Assignment", Lhs |-> lhs, Rhs |-> rhs]

BlockStatement(es) == [kind |-> "Block", Expressions |-> es]

Nil == [kind |-> "nil"]

(***************************************************************************)
(* The parser.  Every parse function yields the Lexer it leaves, the node  *)
(* (or token, or argument list) it returns, its error and whether          *)
(* log.Fatal ended the process on the way.                                 *)
(***************************************************************************)
ParseOut(l, e, err, dead) == [lex |-> l, e |-> e, err |-> err, fatal |-> dead]

\* Parser.expectToken (part_001 171-183), r being what p.lexer.Next() returned
expectTokenOf(r, tokenType) ==
    IF r.Error # "nil" THEN ParseOut(r.lex, UnknownToken, r.Error, FALSE)
    ELSE IF r.Token.Typ = tokenType THEN ParseOut(r.lex, r.Token, "nil", FALSE)
    ELSE ParseOut(r.lex, UnknownToken, "ErrTokenNotExpected", FALSE)

expectToken(s, l, tokenType) == expectTokenOf(Next(s, l), tokenType)

\* An error or a fatal end handed up unchanged: return nil, err
Failed(r) == ParseOut(r.lex, Nil, r.err, r.fatal)

IsFailed(r) == r.fatal \/ r.err # "nil"

\* The Lexer after Consume, and whether Consume was fatal.
Consumed(c, e) == ParseOut(c.lex, e, "nil", c.fatal)

RECURSIVE parseCall(_, _)
RECURSIVE parseAssignment(_, _)
RECURSIVE parseExpression(_, _)
RECURSIVE parseArgs(_, _)
RECURSIVE parseArgsLoop(_, _, _)

\* Parser.parseCall (part_001 76-81), args being what parseArgs returned
parseCallClose(s, called, args) ==
    IF IsFailed(args) THEN Failed(args)
    ELSE ParseOut(expectToken(s, args.lex, "TokenSquareBracketClose").lex,
                  CallExpression(called.e.Value, args.e), "nil", FALSE)

\* A parseCall that gives up when the token after the name is no '['.
parseCallOpenRequired(s, called) ==
    IF called.err # "nil" THEN Failed(called)
    ELSE IF Next(s, called.lex).Token.Typ # "TokenSquareBracketOpen"
    THEN Failed(expectToken(s, called.lex, "TokenSquareBracketOpen"))
    ELSE parseCallClose(s, called,
             parseArgs(s, expectToken(s, called.lex, "TokenSquareBracketOpen").lex))

\* Parser.parseCall (part_001 65-74), called being what expectToken returned
parseCallOpen(s, called) ==
    IF called.err # "nil" THEN Failed(called)
    ELSE parseCallClose(s, called,
             parseArgs(s, expectToken(s, called.lex, "TokenSquareBracketOpen").lex))

\* Parser.parseCall (part_001 63-82)
parseCall(s, l) == parseCallOpen(s, expectToken(s, l, "TokenName"))

\* Parser.parseAssignment (part_001 93-102), rhs being what parseExpression returned
parseAssignmentRhs(lhs, rhs) ==
    IF IsFailed(rhs) THEN Failed(rhs)
    ELSE ParseOut(rhs.lex,
                  AssignmentExpression(VariableReferenceExpression(lhs.e.Value), rhs.e),
                  "nil", FALSE)

\* Parser.parseAssignment (part_001 86-92), lhs being what expectToken returned
parseAssignmentEquals(s, lhs) ==
    IF lhs.err # "nil" THEN Failed(lhs)
    ELSE parseAssignmentRhs(lhs,
             parseExpression(s, expectToken(s, lhs.lex, "TokenEquals").lex))

\* Parser.parseAssignment (part_001 84-103)
parseAssignment(s, l) == parseAssignmentEquals(s, expectToken(s, l, "TokenName"))

\* A parseExpression that never looks for '=' behind a name.
parseExpressionNameNoAssignment(s, token, p2) ==
    IF p2.Error = "nil" /\ p2.Token.Typ = "TokenSquareBracketOpen"
    THEN parseCall(s, p2.lex)
    ELSE Consumed(Consume(p2.lex), VariableReferenceExpression(token.Value))

\* Parser.parseExpression (part_001 113-127), p2 being what Peek(2) returned twice
parseExpressionName(s, token, p2) ==
    IF p2.Error = "nil" /\ p2.Token.Typ = "TokenSquareBracketOpen"
    THEN parseCall(s, p2.lex)
    ELSE IF p2.Error = "nil" /\ p2.Token.Typ = "TokenEquals"
    THEN parseAssignment(s, p2.lex)
    ELSE Consumed(Consume(p2.lex), VariableReferenceExpression(token.Value))

\* A parseExpression that consumes twice after a number.
parseExpressionPeekedConsumingTwice(s, p1) ==
    IF p1.Error # "nil" THEN ParseOut(p1.lex, Nil, p1.Error, FALSE)
    ELSE IF p1.Token.Typ = "TokenName"
    THEN parseExpressionName(s, p1.Token, Peek(s, Peek(s, p1.lex, 2).lex, 2))
    ELSE IF p1.Token.Typ = "TokenNumber"
    THEN Consumed(Consume(Consume(p1.lex).lex), LiteralNumberExpression(p1.Token.Value))
    ELSE ParseOut(p1.lex, Nil, "failed to parse expression", FALSE)

\* Parser.parseExpression (part_001 109-135), p1 being what Peek(1) returned
parseExpressionPeeked(s, p1) ==
    IF p1.Error # "nil" THEN ParseOut(p1.lex, Nil, p1.Error, FALSE)
    ELSE IF p1.Token.Typ = "TokenName"
    THEN parseExpressionName(s, p1.Token, Peek(s, Peek(s, p1.lex, 2).lex, 2))
    ELSE IF p1.Token.Typ = "TokenNumber"
    THEN Consumed(Consume(p1.lex), LiteralNumberExpression(p1.Token.Value))
    ELSE ParseOut(p1.lex, Nil, "failed to parse expression", FALSE)

\* Parser.parseExpression (part_001 107-136)
parseExpression(s, l) == parseExpressionPeeked(s, Peek(s, l, 1))

\* Parser.parseArgs (part_001 156-160), e being what parseExpression returned
parseArgsAppend(s, args, e) ==
    IF IsFailed(e) THEN Failed(e)
    ELSE parseArgsLoop(s, e.lex, Append(args, e.e))

\* Parser.parseArgs (part_001 155-156), c being what Consume left
parseArgsAfterComma(s, c, args) ==
    IF c.fatal THEN ParseOut(c.lex, Nil, "nil", TRUE)
    ELSE parseArgsAppend(s, args, parseExpression(s, c.lex))

\* Parser.parseArgs (part_001 150-163), p being what Peek(1) returned
parseArgsComma(s, p, args) ==
    IF p.Error # "nil" THEN ParseOut(p.lex, Nil, p.Error, FALSE)
    ELSE IF p.Token.Typ = "TokenComma"
    THEN parseArgsAfterComma(s, Consume(p.lex), args)
    ELSE ParseOut(p.lex, args, "nil", FALSE)

\* The for loop of Parser.parseArgs (part_001 149-164)
parseArgsLoop(s, l, args) == parseArgsComma(s, Peek(s, l, 1), args)

\* Parser.parseArgs (part_001 141-148), m being what MustPeek(1) returned
parseArgsFirst(s, m) ==
    IF m.fatal THEN ParseOut(m.lex, Nil, m.Error, TRUE)
    ELSE IF m.Token.Typ # "TokenSquareBracketClose"
    THEN parseArgsAppend(s, <<>>, parseExpression(s, m.lex))
    ELSE ParseOut(m.lex, <<>>, "nil", FALSE)

\* Parser.parseArgs (part_001 138-168)
parseArgs(s, l) == parseArgsFirst(s, MustPeek(s, l, 1))

RECURSIVE ParseLoop(_, _, _)

\* Parser.Parse (part_001 46-54), c being what parseCall returned
ParseAppend(s, c, expressions) ==
    IF c.fatal THEN ParseOut(c.lex, Nil, c.err, TRUE)
    ELSE IF c.err = "EOF" THEN ParseOut(c.lex, BlockStatement(expressions), "nil", FALSE)
    ELSE IF c.err # "nil" THEN ParseOut(c.lex, Nil, c.err, TRUE)
    ELSE ParseLoop(s, c.lex, Append(expressions, c.e))

\* The for loop of Parser.Parse (part_001 42-55): any error but io.EOF is fatal.
ParseLoop(s, l, expressions) == ParseAppend(s, parseCall(s, l), expressions)

\* Parser.Parse (part_001 37-58)
Parse(s, l) == ParseLoop(s, l, <<>>)

(***************************************************************************)
(* The parser on one source: main runs Parse on a fresh Lexer; to stand at *)
(* every position at which an Expression is expected, parseExpression is   *)
(* also run after any Next and Peek calls.                                 *)
(***************************************************************************)
ParseChars == {"a", "1", "[", "]", ",", "="}
MaxProgramLen == 4   \* runes in a source of the parser specification

InitParser ==
    /\ src \in SeqsUpTo(ParseChars, MaxProgramLen)
    /\ lex = NewLexer
    /\ op = "New"
    /\ arg = 0
    /\ pre = NewLexer
    /\ ret = NoResult
    /\ removed = <<>>
    /\ fatal = FALSE
    /\ PrinterIdle

Parsed(name, r) ==
    /\ op' = name
    /\ arg' = 0
    /\ pre' = Entered(lex)
    /\ lex' = r.lex
    /\ ret' = [e |-> r.e, err |-> r.err]
    /\ fatal' = r.fatal
    /\ UNCHANGED <<src, removed, twin, ast, printer, out>>

ParseAct ==
    /\ op = "New"
    /\ Parsed("Parse", Parse(src, Entered(lex)))

ParseExpressionAct ==
    /\ op \in {"New", "Next", "Peek"}
    /\ Parsed("parseExpression", parseExpression(src, Entered(lex)))

LexerCallsDone == op \in {"New", "Next", "Peek"}

NextParser ==
    \/ LexerCallsDone /\ NextAct
    \/ LexerCallsDone /\ PeekAct
    \/ ParseExpressionAct
    \/ ParseAct

SpecParser == InitParser /\ [][NextParser]_vars

(***************************************************************************)
(* Reference notions the parser claims are stated with.                    *)
(***************************************************************************)
\* The tokens Next alone returns from Lexer l up to the first error.
RECURSIVE TokensFrom(_, _)
TokensFrom(s, l) ==
    LET r == Next(s, l)
    IN IF r.Error # "nil" THEN <<>> ELSE <<r.Token>> \o TokensFrom(s, r.lex)

Typs(toks) == [i \in 1..Len(toks) |-> toks[i].Typ]

\* The source is a name, '[' and a well-formed argument list that the end of the
\* input cuts short: names or numbers separated by commas, a trailing comma or
\* not, and no ']'.
UnterminatedCall(s) ==
    LET typs == Typs(TokensFrom(s, NewLexer))
    IN /\ Len(typs) >= 2
       /\ typs[1] = "TokenName"
       /\ typs[2] = "TokenSquareBracketOpen"
       /\ \A i \in 3..Len(typs) :
             IF i % 2 = 1 THEN typs[i] \in {"TokenName", "TokenNumber"}
                          ELSE typs[i] = "TokenComma"
       /\ \A i \in 1..Len(s) : s[i] \in ParseChars

(***************************************************************************)
(* C2: when the input ends inside a call's argument list, after the name   *)
(* and the opening bracket and before the closing bracket, Parse aborts;   *)
(* it never returns a block.                                               *)
(***************************************************************************)
C2_UnterminatedCallAborts ==
    (op = "Parse" /\ UnterminatedCall(src)) => fatal

(***************************************************************************)
(* C4: where an Expression is expected, a name followed by '=' is parsed   *)
(* as an Assignment to that name (never as a bare reference), a name       *)
(* followed by '[' as a Call, a name followed by anything else as a        *)
(* VariableReference that consumes the name alone, a number as a           *)
(* LiteralNumber, and any other first token is a syntax error.             *)
(***************************************************************************)
C4_ExpressionLookahead ==
    op = "parseExpression" =>
        LET t1 == NthOfNextCalls(src, pre, 1)
            t2 == NthOfNextCalls(src, pre, 2)
            isName == t1.Error = "nil" /\ t1.Token.Typ = "TokenName"
            second == IF t2.Error = "nil" THEN t2.Token.Typ ELSE "none"
            after2 == Next(src, Next(src, pre).lex).lex
            rhs == parseExpression(src, after2)
            rest == TokensFrom(src, Next(src, pre).lex)
        IN /\ (isName /\ second = "TokenEquals") =>
                 /\ ret.e.kind \in {"Assignment", "nil"}
                 /\ ret.err = rhs.err
                 /\ ret.err = "nil" =>
                       ret.e = AssignmentExpression(
                                   VariableReferenceExpression(t1.Token.Value), rhs.e)
           /\ (isName /\ second = "TokenSquareBracketOpen") =>
                 /\ ret.e.kind \in {"Call", "nil"}
                 /\ (ret.err = "nil" /\ ~fatal) =>
                       ret.e.kind = "Call" /\ ret.e.Call = t1.Token.Value
           /\ (isName /\ second \notin {"TokenEquals", "TokenSquareBracketOpen"}) =>
                 /\ ret = [e |-> VariableReferenceExpression(t1.Token.Value), err |-> "nil"]
                 /\ ~fatal
                 /\ TokensFrom(src, lex) = rest
           /\ (t1.Error = "nil" /\ t1.Token.Typ = "TokenNumber") =>
                 /\ ret = [e |-> LiteralNumberExpression(t1.Token.Value), err |-> "nil"]
                 /\ ~fatal
                 /\ TokensFrom(src, lex) = rest
           /\ (t1.Error = "nil" /\ t1.Token.Typ \notin {"TokenName", "TokenNumber"}) =>
                 /\ ret = [e |-> Nil, err |-> "failed to parse expression"]
                 /\ TokensFrom(src, lex) = TokensFrom(src, pre)

\* After earlier lexer calls, parseExpression met a name and '=' and built the Assignment.
C4_Witness ==
    /\ op = "parseExpression"
    /\ pre.pos > 0
    /\ ret.err = "nil"
    /\ ret.e.kind = "Assignment"
    /\ ret.e.Lhs.kind = "VariableReference"
    /\ ret.e.Rhs.kind = "LiteralNumber"

(***************************************************************************)
(* Two sources tokenized side by side: src holds a line comment, twin the  *)
(* same text with the comment replaced by its newline alone.               *)
(***************************************************************************)
CommentChars == {"a", "/", " ", "\n"}
BodyChars == {"a", "/"}
MaxBefore == 3      \* runes before the comment
MaxAfter == 4       \* runes after the comment
MaxBody == 1        \* runes of the comment's body

IsAlnum(r) == IsLetter(r) \/ IsDigit(r)

\* The comment stands between two tokens: a token is read before it and one after
\* it, it splits no run of letters and digits, and its two slashes touch no other
\* slash.
BetweenTokens(x, y) ==
    /\ TokensFrom(x, NewLexer) # <<>>
    /\ TokensFrom(y, NewLexer) # <<>>
    /\ ~(IsAlnum(x[Len(x)]) /\ IsAlnum(y[1]))
    /\ x[Len(x)] # "/"
    /\ y[1] # "/"

KindsAndTexts(toks) == [i \in 1..Len(toks) |-> <<toks[i].Typ, toks[i].Value>>]

InitComment ==
    /\ \E x \in SeqsUpTo(CommentChars, MaxBefore), y \in SeqsUpTo(CommentChars, MaxAfter),
          body \in SeqsUpTo(BodyChars, MaxBody) :
          /\ BetweenTokens(x, y)
          /\ src = x \o <<"/", "/">> \o body \o <<"\n">> \o y
          /\ twin = x \o <<"\n">> \o y
          /\ arg = Len(x)
    /\ lex = NewLexer
    /\ op = "New"
    /\ pre = NewLexer
    /\ ret = NoResult
    /\ removed = <<>>
    /\ fatal = FALSE
    /\ ast = <<>>
    /\ printer = NoPrinter
    /\ out = <<>>

\* Both sources are read to their end by Next alone.
TokenizeAct ==
    /\ op = "New"
    /\ op' = "Tokenize"
    /\ ret' = [tokens |-> KindsAndTexts(TokensFrom(src, NewLexer)),
               twinTokens |-> KindsAndTexts(TokensFrom(twin, NewLexer))]
    /\ UNCHANGED <<src, lex, arg, pre, removed, fatal, twin, ast, printer, out>>

NextComment == TokenizeAct

SpecComment == InitComment /\ [][NextComment]_vars

(***************************************************************************)
(* C7: a line comment between two tokens changes nothing: the source with  *)
(* the comment and the source with the newline alone yield the same token  *)
(* kinds and texts in the same order.                                      *)
(***************************************************************************)
C7_CommentHasNoEffect ==
    op = "Tokenize" => ret.tokens = ret.twinTokens

(***************************************************************************)
(* The Python printer (printer/printers/python/python.go).  A rendering    *)
(* yields the text, the Printer with the flags it has set, and whether the *)
(* process died on the way (an index out of range, a failed type           *)
(* assertion, log.Fatalf).  In an AST handed to the printer a name is      *)
(* written as one piece of text.                                           *)
(***************************************************************************)
Rendered(text, p) == [text |-> text, p |-> p, panic |-> FALSE]

Panicked(p) == [text |-> <<>>, p |-> p, panic |-> TRUE]

\* strings.Join
RECURSIVE Join(_, _)
Join(texts, sep) ==
    IF Len(texts) = 0 THEN <<>>
    ELSE IF Len(texts) = 1 THEN texts[1]
    ELSE texts[1] \o <<sep>> \o Join(Tail(texts), sep)

\* A Printer that forgets to raise usingAssocBuiltin.
MarkAssocForgotten(p) == p

\* p.usingAssocBuiltin = true (python.go 86, 91, 96)
MarkAssoc(p) == [p EXCEPT !.usingAssocBuiltin = TRUE]

\* p.usingPrintBuiltin = true (python.go 48)
MarkPrint(p) == [p EXCEPT !.usingPrintBuiltin = TRUE]

\* Printer.printAssocBuiltin (python.go 162-164)
printAssocBuiltin == <<"def builtin__assoc(k, v, obj):\n  obj[k] = v\n  return obj\n">>

\* Printer.printPrintBuiltin (python.go 166-168)
printPrintBuiltin == <<"def builtin__print(*args, **kwargs):\n  print(*args, **kwargs)\n  return args[0]\n">>

IsVariableReference(e) == e.kind = "VariableReference"
IsAssignment(e) == e.kind = "Assignment"
IsCallNamed(e, name) == e.kind = "Call" /\ e.Call = name

RECURSIVE printExpression(_, _)
RECURSIVE printAll(_, _, _)
RECURSIVE letParams(_, _, _, _)
RECURSIVE defParams(_, _)

\* texts = append(texts, p.printExpression(a)), r being what printExpression returned
printAllNext(es, texts, r) ==
    IF r.panic THEN Panicked(r.p)
    ELSE printAll(Tail(es), Append(texts, r.text), r.p)

\* for _, a := range es { texts = append(texts, p.printExpression(a)) }
\* (python.go 43-45, 114-116): the text of the result is the list of the texts.
printAll(es, texts, p) ==
    IF Len(es) = 0 THEN Rendered(texts, p)
    ELSE printAllNext(es, texts, printExpression(Head(es), p))

\* fmt.Sprintf("%s = %s", name, value) appended to the parameters acc
\* (python.go 57-59, 128-131), value being the rendered right-hand side
paramAssigned(a, acc, value) ==
    IF value.panic THEN Panicked(value.p)
    ELSE Rendered(Append(acc.text, <<a.Lhs.Value, " = ">> \o value.text), value.p)

\* One pass of the loop over the bindings of Let (python.go 56-63)
letParam(a, acc) ==
    IF IsAssignment(a) THEN paramAssigned(a, acc, printExpression(a.Rhs, acc.p))
    ELSE IF IsVariableReference(a) THEN Rendered(Append(acc.text, <<a.Value>>), acc.p)
    ELSE acc

\* The loop over the bindings of Let (python.go 55-64), from index i (1-based) up
\* to l: the text of the result is the list of the parameters.
letParams(args, i, l, acc) ==
    IF i > l \/ acc.panic THEN acc
    ELSE letParams(args, i + 1, l, letParam(args[i], acc))

\* params = append(params, subparams...) (python.go 113-117), sub being the
\* rendered members of the nested Args
defParamSpliced(acc, sub) ==
    IF sub.panic THEN Panicked(sub.p)
    ELSE Rendered(acc.text \o sub.text, sub.p)

\* One pass of the loop over the members of Args[...] in Def (python.go 110-132)
defParam(a, acc) ==
    IF IsVariableReference(a) THEN Rendered(Append(acc.text, <<a.Value>>), acc.p)
    ELSE IF IsCallNamed(a, "Args") THEN defParamSpliced(acc, printAll(a.Args, <<>>, acc.p))
    ELSE IF IsCallNamed(a, "HashMap")
    THEN IF Len(a.Args) > 1 THEN Panicked(acc.p)
         ELSE IF Len(a.Args) = 0 THEN Panicked(acc.p)
         ELSE IF ~IsVariableReference(a.Args[1]) THEN Panicked(acc.p)
         ELSE Rendered(Append(acc.text, <<a.Args[1].Value, " = dict()">>), acc.p)
    ELSE IF IsAssignment(a) THEN paramAssigned(a, acc, printExpression(a.Rhs, acc.p))
    ELSE acc

\* The loop over the members of Args[...] in Def (python.go 109-133): the text of
\* the result is the list of the parameters.
defParams(members, acc) ==
    IF Len(members) = 0 \/ acc.panic THEN acc
    ELSE defParams(Tail(members), defParam(Head(members), acc))

\* fmt.Sprintf("lambda %s: %s", ...) (python.go 66), body being the rendered last argument
printLetBody(params, body) ==
    IF body.panic THEN Panicked(body.p)
    ELSE Rendered(<<"lambda ">> \o Join(params.text, ", ") \o <<": ">> \o body.text, body.p)

\* Let (python.go 52-67), params being what the loop over the bindings left
printLet(e, n, params) ==
    IF params.panic \/ n = 0 THEN Panicked(params.p)
    ELSE printLetBody(params, printExpression(e.Args[n], params.p))

\* Cond (python.go 100-102): the three arguments rendered again, in the order the
\* call of Sprintf evaluates them
printCond3(t, c, f) ==
    IF t.panic \/ c.panic \/ f.panic THEN Panicked(f.p)
    ELSE Rendered(t.text \o <<" if ">> \o c.text \o <<" else ">> \o f.text, f.p)

printCond2(e, t, c) == printCond3(t, c, printExpression(e.Args[3], c.p))

printCond1(e, t) == printCond2(e, t, printExpression(e.Args[1], t.p))

printCond(e, p) == printCond1(e, printExpression(e.Args[2], p))

\* fmt.Sprintf("%s = lambda %s: %s", ...) (python.go 136), body being the rendered
\* third argument
printDefBody(e, params, body) ==
    IF body.panic THEN Panicked(body.p)
    ELSE Rendered(<<e.Args[1].Value, " = lambda ">> \o Join(params.text, ", ")
                      \o <<": ">> \o body.text, body.p)

\* Def with a name and more than two arguments (python.go 105-137), params being
\* what the loop over the parameter list left
printDefLambda(e, params) ==
    IF params.panic THEN Panicked(params.p)
    ELSE printDefBody(e, params, printExpression(e.Args[3], params.p))

\* Def with an Assignment (python.go 140-142), value being the rendered right-hand side
printDefAssignment(e, value) ==
    IF value.panic THEN Panicked(value.p)
    ELSE Rendered(<<e.Args[1].Lhs.Value, " = ">> \o value.text, value.p)

\* The case CallExpression of printExpression after its first loop (python.go
\* 47-152): args are the rendered arguments, n is len(e.Args)
printCallNamed(e, args, p, n) ==
    IF e.Call = "Print"
    THEN Rendered(<<"builtin__print(">> \o Join(args, ",") \o <<")">>, MarkPrint(p))
    ELSE IF e.Call = "Let"
    THEN printLet(e, n, letParams(e.Args, 1, n - 1, Rendered(<<>>, p)))
    ELSE IF e.Call = "HashMap"
    THEN Rendered(<<"dict()">>, p)
    ELSE IF e.Call = "Map"
    THEN IF n < 1 THEN Panicked(p)
         ELSE Rendered(<<"map(">> \o args[1] \o <<", ">> \o Join(Tail(args), ", ") \o <<")">>, p)
    ELSE IF e.Call = "List"
    THEN Rendered(<<"[">> \o Join(args, ", ") \o <<"]">>, p)
    ELSE IF e.Call = "Call"
    THEN IF n < 1 THEN Panicked(p)
         ELSE Rendered(<<"((">> \o args[1] \o <<")(">> \o Join(Tail(args), ",") \o <<"))">>, p)
    ELSE IF e.Call = "Assoc"
    THEN IF n < 3 THEN Panicked(MarkAssoc(p))
         ELSE Rendered(<<"builtin__assoc(">> \o args[1] \o <<", ">> \o args[2]
                           \o <<", ">> \o args[3] \o <<")">>, MarkAssoc(p))
    ELSE IF e.Call = "Has"
    THEN IF n < 2 THEN Panicked(MarkAssoc(p))
         ELSE Rendered(<<"(">> \o args[2] \o <<".get(">> \o args[1]
                           \o <<", None) != None)">>, MarkAssoc(p))
    ELSE IF e.Call = "Get"
    THEN IF n < 2 THEN Panicked(MarkAssoc(p))
         ELSE Rendered(<<"(">> \o args[2] \o <<".get(">> \o args[1] \o <<"))">>, MarkAssoc(p))
    ELSE IF e.Call = "Cond"
    THEN IF n < 3 THEN Panicked(p) ELSE printCond(e, p)
    ELSE IF e.Call = "Def" /\ n = 0
    THEN Panicked(p)
    ELSE IF e.Call = "Def" /\ IsVariableReference(e.Args[1]) /\ n > 2
    THEN printDefLambda(e, IF IsCallNamed(e.Args[2], "Args")
                           THEN defParams(e.Args[2].Args, Rendered(<<>>, p))
                           ELSE Rendered(<<>>, p))
    ELSE IF e.Call = "Def" /\ IsAssignment(e.Args[1])
    THEN printDefAssignment(e, printExpression(e.Args[1].Rhs, p))
    ELSE IF e.Call = "Inc"
    THEN Rendered(Join([i \in 1..n |-> args[i] \o <<"+1">>], ","), p)
    ELSE Rendered(<<e.Call, "(">> \o Join(args, ",") \o <<")">>, p)

\* The case CallExpression of printExpression (python.go 41-152), all being what
\* its first loop over e.Args left
printCall(e, all) ==
    IF all.panic THEN Panicked(all.p)
    ELSE printCallNamed(e, all.text, all.p, Len(e.Args))

\* Printer.printExpression (python.go 39-160)
printExpression(e, p) ==
    IF e.kind = "Call" THEN printCall(e, printAll(e.Args, <<>>, p))
    ELSE IF e.kind = "LiteralNumber" THEN Rendered(<<e.Value>>, p)
    ELSE IF e.kind = "VariableReference" THEN Rendered(<<e.Value>>, p)
    ELSE Rendered(<<"<unknown>">>, p)

\* A block whose rendered expressions are joined last to first.
printBlockReversed(all) ==
    IF all.panic THEN Panicked(all.p)
    ELSE Rendered(Join([i \in 1..Len(all.text) |-> all.text[Len(all.text) + 1 - i]], "\n"),
                  all.p)

\* strings.Join(expressions, "\n") (python.go 29-33), all being the rendered expressions
printBlock(all) ==
    IF all.panic THEN Panicked(all.p)
    ELSE Rendered(Join(all.text, "\n"), all.p)

\* Printer.printStatement (python.go 26-37)
printStatement(s, p) ==
    IF s.kind = "Block" THEN printBlock(printAll(s.Expressions, <<>>, p))
    ELSE Rendered(<<"<unknown>">>, p)

\* Printer.String (python.go 17-23), st being what printStatement returned
withHelpers(st) ==
    IF st.panic THEN st
    ELSE Rendered((IF st.p.usingPrintBuiltin THEN printPrintBuiltin \o <<"\n">> ELSE <<>>)
                      \o (IF st.p.usingAssocBuiltin THEN printAssocBuiltin \o <<"\n">> ELSE <<>>)
                      \o st.text,
                  st.p)

\* Printer.String (python.go 15-24)
String(s, p) == withHelpers(printStatement(s, p))

(***************************************************************************)
(* The printer on one block: main hands the block to a fresh Printer.      *)
(* The blocks are one top-level call of any name over arguments drawn from *)
(* a pool of expressions, or several top-level calls drawn from the pool.  *)
(***************************************************************************)
MaxArgs == 3        \* arguments of the top-level call
MaxBlock == 2       \* top-level calls of a block of pool calls

SpecialNames == {"Print", "Let", "HashMap", "Map", "List", "Call", "Assoc",
                 "Has", "Get", "Cond", "Def", "Inc"}

TopNames == SpecialNames \cup {"F", "Args"}

VarX == VariableReferenceExpression("x")
VarM == VariableReferenceExpression("m")
Num1 == LiteralNumberExpression("1")

PoolCalls == {CallExpression("Print", <<VarX>>),
              CallExpression("Has", <<VarX, VarM>>),
              CallExpression("Get", <<VarX, VarM>>),
              CallExpression("Assoc", <<VarX, Num1, VarM>>),
              CallExpression("F", <<VarX>>),
              CallExpression("F", <<AssignmentExpression(VarX, Num1), VarM>>)}

Pool == {VarX, VarM, Num1, AssignmentExpression(VarX, Num1)} \cup PoolCalls

TopCalls == {CallExpression(name, args) : name \in TopNames, args \in SeqsUpTo(Pool, MaxArgs)}

Blocks == {BlockStatement(<<c>>) : c \in TopCalls}
              \cup {BlockStatement(es) : es \in SeqsUpTo(PoolCalls, MaxBlock)}

MaxParams == 2      \* members of the parameter list of a Def

MyPrint == VariableReferenceExpression("MyPrint")

\* What the parameter list of a Def is made of: a name, an Assignment, HashMap
\* with one argument and with two, and nested Args[...] lists of these.
DefMembers == {VarX,
               AssignmentExpression(VarX, Num1),
               CallExpression("HashMap", <<VarM>>),
               CallExpression("HashMap", <<VarM, VarX>>),
               CallExpression("Args", <<VarX>>),
               CallExpression("Args", <<AssignmentExpression(VarX, Num1)>>),
               CallExpression("Args", <<CallExpression("HashMap", <<VarM>>)>>),
               CallExpression("Args", <<VarX, VarM>>)}

\* Def[MyPrint, Args[members], body]
DefBlocks == {BlockStatement(<<CallExpression("Def",
                                 <<MyPrint, CallExpression("Args", members), body>>)>>) :
                 members \in SeqsUpTo(DefMembers, MaxParams),
                 body \in {VarX, CallExpression("Print", <<VarX>>)}}

InitPrinter ==
    /\ ast \in Blocks \cup DefBlocks
    /\ printer = NoPrinter
    /\ out = <<>>
    /\ op = "New"
    /\ src = <<>>
    /\ twin = <<>>
    /\ lex = NewLexer
    /\ arg = 0
    /\ pre = NewLexer
    /\ ret = NoResult
    /\ removed = <<>>
    /\ fatal = FALSE

\* Printer.PrintPython (part_000 18-21): pp := python.Printer{}; pp.String(p.Ast)
StringAct ==
    /\ op = "New"
    /\ LET r == String(ast, printer)
       IN /\ out' = r.text
          /\ printer' = r.p
          /\ fatal' = r.panic
    /\ op' = "String"
    /\ UNCHANGED <<src, lex, arg, pre, ret, removed, twin, ast>>

NextPrinter == StringAct

SpecPrinter == InitPrinter /\ [][NextPrinter]_vars

(***************************************************************************)
(* Reference notions the printer claims are stated with.                   *)
(***************************************************************************)
\* How often the piece x occurs in text.
Count(text, x) == Cardinality({i \in 1..Len(text) : text[i] = x})

Holds(text, x) == \E i \in 1..Len(text) : text[i] = x

\* The main block alone, as a fresh Printer renders it.
MainBlock == printStatement(ast, NoPrinter).text

\* The pieces only a rendered Assoc, Has or Get leaves in a text, and the piece
\* only a rendered Print call leaves.
AssocForms == {"builtin__assoc(", ".get("}
PrintForm == "builtin__print("

\* Does text hold the texts of parts one after the other, without overlap, from
\* position from on?  Each part is placed at its leftmost possible position.
RECURSIVE InOrder(_, _, _)
InOrder(parts, text, from) ==
    IF Len(parts) = 0 THEN TRUE
    ELSE LET part == Head(parts)
             at == {i \in from..(Len(text) + 1 - Len(part)) :
                        SubSeq(text, i, i + Len(part) - 1) = part}
         IN /\ at # {}
            /\ LET first == CHOOSE i \in at : \A j \in at : i <= j
               IN InOrder(Tail(parts), text, first + Len(part))

\* The texts of the expressions es, each rendered on its own.
TextsOf(es) == [i \in 1..Len(es) |-> printExpression(es[i], NoPrinter).text]

\* The helper definitions of out, each at most once and there when main needs
\* it, followed by main.
HelpersOnceBefore(main) ==
    LET nAssoc == Count(out, printAssocBuiltin[1])
        nPrint == Count(out, printPrintBuiltin[1])
        helpers == Len(out) - Len(main)
    IN /\ nAssoc <= 1
       /\ nPrint <= 1
       /\ (\E x \in AssocForms : Holds(main, x)) => nAssoc = 1
       /\ Holds(main, PrintForm) => nPrint = 1
       /\ helpers >= 0
       /\ SubSeq(out, helpers + 1, Len(out)) = main
       /\ \A i \in 1..Len(out) :
             out[i] \in {printAssocBuiltin[1], printPrintBuiltin[1]} => i <= helpers

(***************************************************************************)
(* C3: in the output of String each helper definition occurs at most once; *)
(* it occurs exactly once when the block renders an Assoc, Has or Get      *)
(* (builtin__assoc) or a Print (builtin__print), however often and however *)
(* nested; and the helper definitions come before the whole main block.    *)
(***************************************************************************)
C3_HelpersOnceBeforeMain ==
    (op = "String" /\ ~fatal) => HelpersOnceBefore(MainBlock)

\* A block that renders a Has or Get, an Assoc and a Print, nested in one call:
\* the assoc helper is needed more than once and defined once.
C3_Witness ==
    /\ op = "String"
    /\ ~fatal
    /\ Count(out, ".get(") >= 1
    /\ Count(out, "builtin__assoc(") >= 1
    /\ Count(out, PrintForm) >= 1
    /\ Count(out, printAssocBuiltin[1]) = 1
    /\ Count(out, printPrintBuiltin[1]) = 1

(***************************************************************************)
(* C9: a program whose calls all have non-special names is rendered as a   *)
(* direct transliteration: F[a1, ..., an] becomes F(r1,...,rn) with every  *)
(* argument rendered by the same rule, a variable reference as its name, a *)
(* number as its digits, at every depth and for every kind of Expression   *)
(* the grammar allows as an argument (an Assignment n = v as "n = " and    *)
(* the rendered v, the way the printer writes a binding).                  *)
(***************************************************************************)
RECURSIVE GenericOnly(_)
GenericOnly(e) ==
    IF e.kind = "Call"
    THEN e.Call \notin SpecialNames /\ \A i \in 1..Len(e.Args) : GenericOnly(e.Args[i])
    ELSE IF e.kind = "Assignment" THEN GenericOnly(e.Rhs)
    ELSE TRUE

RECURSIVE Transliterated(_)
Transliterated(e) ==
    IF e.kind = "Call"
    THEN <<e.Call, "(">>
             \o Join([i \in 1..Len(e.Args) |-> Transliterated(e.Args[i])], ",")
             \o <<")">>
    ELSE IF e.kind = "Assignment"
    THEN <<e.Lhs.Value, " = ">> \o Transliterated(e.Rhs)
    ELSE <<e.Value>>

C9_GenericCallsTransliterated ==
    (/\ op = "String"
     /\ ~fatal
     /\ \A i \in 1..Len(ast.Expressions) : GenericOnly(ast.Expressions[i]))
    => out = Join([i \in 1..Len(ast.Expressions) |-> Transliterated(ast.Expressions[i])],
                  "\n")

(***************************************************************************)
(* C10, as claimed: the rendered top-level calls appear in the order of    *)
(* the block, and for every call, generic or special, the rendered texts   *)
(* of its arguments appear in the order the arguments have in the AST.     *)
(***************************************************************************)
TopLevelInOrder == InOrder(TextsOf(ast.Expressions), out, 1)

C10_ArgumentsInOrder ==
    (op = "String" /\ ~fatal) =>
        /\ TopLevelInOrder
        /\ \A i \in 1..Len(ast.Expressions) :
              LET c == ast.Expressions[i]
              IN InOrder(TextsOf(c.Args), printExpression(c, NoPrinter).text, 1)

(***************************************************************************)
(* C10, amended: the rendered top-level calls appear in the order of the   *)
(* block; a generic call and Print, List, Map, Call and Inc render all     *)
(* their arguments in AST order and Assoc its first three; Has and Get     *)
(* render their second argument before their first, and Cond its second,   *)
(* then its first, then its third.  (Let, Def and HashMap do not render    *)
(* every argument.)                                                        *)
(***************************************************************************)
RenderedArguments(c) ==
    LET r == TextsOf(c.Args)
    IN IF c.Call \in {"Has", "Get"} THEN <<r[2], r[1]>>
       ELSE IF c.Call = "Cond" THEN <<r[2], r[1], r[3]>>
       ELSE IF c.Call = "Assoc" THEN <<r[1], r[2], r[3]>>
       ELSE IF c.Call \in {"Let", "Def", "HashMap"} THEN <<>>
       ELSE r

C10_ArgumentsInRenderingOrder ==
    (op = "String" /\ ~fatal) =>
        /\ TopLevelInOrder
        /\ \A i \in 1..Len(ast.Expressions) :
              LET c == ast.Expressions[i]
              IN InOrder(RenderedArguments(c), printExpression(c, NoPrinter).text, 1)

\* A block of two different calls, the first a Has with two different arguments.
C10_Witness ==
    /\ op = "String"
    /\ ~fatal
    /\ Len(ast.Expressions) = 2
    /\ ast.Expressions[1].Call = "Has"
    /\ ast.Expressions[1].Args[1] # ast.Expressions[1].Args[2]
    /\ ast.Expressions[2].Call = "Assoc"

(***************************************************************************)
(* C11: a Let call with k >= 1 arguments renders as                        *)
(* lambda p1, ..., p(k-1): body, body being the rendering of the last      *)
(* argument, with exactly one parameter per preceding argument, in order:  *)
(* a bare name gives that name, an Assignment gives name = rendered value  *)
(* (an argument of another kind is taken as its own rendering); and        *)
(* Let[x, Print[x]] renders to lambda x: builtin__print(x) with the        *)
(* print-helper definition before it.                                      *)
(***************************************************************************)
TextOf(e) == printExpression(e, NoPrinter).text

LetParameter(a) ==
    IF IsAssignment(a) THEN <<a.Lhs.Value, " = ">> \o TextOf(a.Rhs) ELSE TextOf(a)

LetAsLambda(c) ==
    LET k == Len(c.Args)
    IN <<"lambda ">> \o Join([i \in 1..(k - 1) |-> LetParameter(c.Args[i])], ", ")
           \o <<": ">> \o TextOf(c.Args[k])

LetXPrintX == BlockStatement(<<CallExpression("Let", <<VarX, CallExpression("Print", <<VarX>>)>>)>>)

C11_LetRendersLambda ==
    (op = "String" /\ ~fatal) =>
        /\ \A i \in 1..Len(ast.Expressions) :
              LET c == ast.Expressions[i]
              IN (c.Call = "Let" /\ Len(c.Args) >= 1) => TextOf(c) = LetAsLambda(c)
        /\ ast = LetXPrintX
              => out = printPrintBuiltin \o <<"\n">>
                           \o <<"lambda ", "x", ": ", "builtin__print(", "x", ")">>

(***************************************************************************)
(* C12: Def[name, Args[p1, ..., pk], body] renders as                      *)
(* name = lambda <params>: <rendered body>, <params> being the in-order,   *)
(* ', '-joined flattening of the parameter list: a bare name gives the     *)
(* name, an Assignment n = v gives n = <rendered v>, HashMap[n] gives      *)
(* n = dict(), and a nested Args[...] contributes each of its members,     *)
(* rendered as a parameter of its kind, spliced flat at that position;     *)
(* Def[MyPrint, Args[x], Print[x]] renders to                              *)
(* MyPrint = lambda x: builtin__print(x).                                  *)
(***************************************************************************)
IsParameterList(e) == IsCallNamed(e, "Args")

\* A member of one of the kinds the claim names, nested lists included.
RECURSIVE IsParameter(_)
IsParameter(a) ==
    \/ IsVariableReference(a)
    \/ IsAssignment(a)
    \/ IsCallNamed(a, "HashMap") /\ Len(a.Args) = 1 /\ IsVariableReference(a.Args[1])
    \/ IsParameterList(a) /\ \A i \in 1..Len(a.Args) : IsParameter(a.Args[i])

\* The parameters the members give, flattened, each a text.
RECURSIVE Flattened(_)
Flattened(members) ==
    IF Len(members) = 0 THEN <<>>
    ELSE LET a == Head(members)
         IN (IF IsVariableReference(a) THEN <<(<<a.Value>>)>>
             ELSE IF IsAssignment(a) THEN <<(<<a.Lhs.Value, " = ">> \o TextOf(a.Rhs))>>
             ELSE IF IsCallNamed(a, "HashMap") THEN <<(<<a.Args[1].Value, " = dict()">>)>>
             ELSE Flattened(a.Args))
            \o Flattened(Tail(members))

DefAsLambda(c) ==
    <<c.Args[1].Value, " = lambda ">> \o Join(Flattened(c.Args[2].Args), ", ")
        \o <<": ">> \o TextOf(c.Args[3])

IsDefOfParameters(c) ==
    /\ IsCallNamed(c, "Def")
    /\ Len(c.Args) = 3
    /\ IsVariableReference(c.Args[1])
    /\ IsParameterList(c.Args[2])
    /\ IsParameter(c.Args[2])

DefMyPrint ==
    BlockStatement(<<CallExpression("Def", <<MyPrint, CallExpression("Args", <<VarX>>),
                                            CallExpression("Print", <<VarX>>)>>)>>)

C12_DefRendersNamedLambda ==
    op = "String" =>
        /\ \A i \in 1..Len(ast.Expressions) :
              LET c == ast.Expressions[i]
              IN IsDefOfParameters(c) => (~fatal /\ TextOf(c) = DefAsLambda(c))
        /\ ast = DefMyPrint
              => out = printPrintBuiltin \o <<"\n">>
                           \o <<"MyPrint", " = lambda ", "x", ": ", "builtin__print(", "x", ")">>

(***************************************************************************)
(* C13: a special form invoked with a shape outside its table row (HashMap *)
(* with more than one argument inside a Def parameter list, Map with fewer *)
(* than two arguments, Assoc or Cond with other than three, Has or Get     *)
(* with other than two, Def with a name and fewer than three arguments)    *)
(* makes rendering abort: String returns no output text for a block that   *)
(* contains such a call.                                                   *)
(***************************************************************************)
HashMapOfSeveral(a) == IsCallNamed(a, "HashMap") /\ Len(a.Args) > 1

MalformedSpecialForm(c) ==
    \/ c.Call = "Map" /\ Len(c.Args) < 2
    \/ c.Call \in {"Assoc", "Cond"} /\ Len(c.Args) # 3
    \/ c.Call \in {"Has", "Get"} /\ Len(c.Args) # 2
    \/ /\ c.Call = "Def"
       /\ Len(c.Args) \in 1..2
       /\ IsVariableReference(c.Args[1])
    \/ /\ c.Call = "Def"
       /\ Len(c.Args) > 2
       /\ IsVariableReference(c.Args[1])
       /\ IsParameterList(c.Args[2])
       /\ \E j \in 1..Len(c.Args[2].Args) : HashMapOfSeveral(c.Args[2].Args[j])

RECURSIVE HoldsMalformed(_)
HoldsMalformed(e) ==
    IF e.kind = "Call"
    THEN MalformedSpecialForm(e) \/ \E i \in 1..Len(e.Args) : HoldsMalformed(e.Args[i])
    ELSE IF e.kind = "Assignment" THEN HoldsMalformed(e.Rhs)
    ELSE FALSE

C13_MalformedSpecialFormAborts ==
    (op = "String" /\ \E i \in 1..Len(ast.Expressions) : HoldsMalformed(ast.Expressions[i]))
        => fatal

(***************************************************************************)
(* One source of recognized characters read to its end by Next alone.      *)
(***************************************************************************)
RunChars == {"a", "1", "[", "\n", "/"}
MaxRunLen == 4      \* runes in a source of the runs specification

InitRuns ==
    /\ src \in SeqsUpTo(RunChars, MaxRunLen)
    /\ twin = src
    /\ lex = NewLexer
    /\ op = "New"
    /\ arg = 0
    /\ pre = NewLexer
    /\ ret = NoResult
    /\ removed = <<>>
    /\ fatal = FALSE
    /\ ast = <<>>
    /\ printer = NoPrinter
    /\ out = <<>>

NextRuns == TokenizeAct

SpecRuns == InitRuns /\ [][NextRuns]_vars

\* The end of the maximal run that starts at index p and is made of runes of the
\* set S: the index of its last rune.
RECURSIVE RunEnd(_, _, _)
RunEnd(s, p, S) ==
    IF p < Len(s) /\ s[p + 1] \in S THEN RunEnd(s, p + 1, S) ELSE p

\* The maximal runs of s from index p on, in order, as kinds and texts: a run of
\* letters and digits that begins with a letter is a Name, a run of digits
\* outside a name is a Number; a comment (two slashes up to the next newline) is
\* no part of a run.
RECURSIVE MaximalRuns(_, _)
MaximalRuns(s, p) ==
    IF p > Len(s) THEN <<>>
    ELSE IF IsLetter(s[p])
    THEN LET q == RunEnd(s, p, Letters \cup Digits)
         IN <<(<<"TokenName", SubSeq(s, p, q)>>)>> \o MaximalRuns(s, q + 1)
    ELSE IF IsDigit(s[p])
    THEN LET q == RunEnd(s, p, Digits)
         IN <<(<<"TokenNumber", SubSeq(s, p, q)>>)>> \o MaximalRuns(s, q + 1)
    ELSE IF s[p] = "/" /\ p < Len(s) /\ s[p + 1] = "/"
    THEN LET q == ReadBytesNewline(s, p + 1)
         IN IF q = 0 THEN <<>> ELSE MaximalRuns(s, q + 1)
    ELSE MaximalRuns(s, p + 1)

NamesAndNumbers(toks) ==
    SelectSeq(toks, LAMBDA t : t[1] \in {"TokenName", "TokenNumber"})

(***************************************************************************)
(* C14: on a source of recognized characters the tokenizer uses longest    *)
(* match: each maximal run of letters and digits that begins with a letter *)
(* yields exactly one Name token whose text is the whole run, each maximal *)
(* run of digits outside a name exactly one Number token whose text is the *)
(* whole run, whatever ends the run: layout, a bracket, a comment or the   *)
(* end of the input.                                                       *)
(***************************************************************************)
C14_LongestMatch ==
    op = "Tokenize" => NamesAndNumbers(ret.tokens) = MaximalRuns(src, 1)

(***************************************************************************)
(* C15: printExpression renders each of the four node kinds by a case of   *)
(* its own wherever the node occurs: the fallback text <unknown> never     *)
(* appears in the output of Printer.String.                                *)
(***************************************************************************)
C15_NoUnknownInOutput ==
    op = "String" => ~Holds(out, "<unknown>")

(***************************************************************************)
(* A session on one source: the lexer's operations called in any order,    *)
(* then the parser run on the Lexer they left (Parse on a fresh one).      *)
(***************************************************************************)
SessionChars == {"a", "1", "[", "]", ","}
MaxSessionLen == 4  \* runes in a source of the session specification

InitSession ==
    /\ src \in SeqsUpTo(SessionChars, MaxSessionLen)
    /\ lex = NewLexer
    /\ op = "New"
    /\ arg = 0
    /\ pre = NewLexer
    /\ ret = NoResult
    /\ removed = <<>>
    /\ fatal = FALSE
    /\ PrinterIdle

ParsingNotStarted == op \notin {"Parse", "parseExpression"}

NextSession ==
    \/ ParsingNotStarted /\ NextLexer
    \/ ParseExpressionAct
    \/ ParseAct

SpecSession == InitSession /\ [][NextSession]_vars

(***************************************************************************)
(* C16: the tokenizer scans only as far ahead as requested: after any      *)
(* sequence of Peek, MustPeek, Next and Consume calls the number of scan   *)
(* results taken from the source equals the number removed from the front  *)
(* plus the current buffer length, the buffer never holds more entries     *)
(* than the largest n passed to Peek / MustPeek so far, and so it never    *)
(* holds more than 2 entries at any point of Parse.  (The bound on the     *)
(* buffer is stated operation by operation: Peek(n) and MustPeek(n) let it *)
(* grow to n entries at most, no other operation lets it grow, and the     *)
(* parser lets it grow to 2 at most.)                                      *)
(***************************************************************************)
C16_ScansOnlyAsFarAsAsked ==
    /\ lex.scans = lex.taken + Len(lex.tokenQueue)
    /\ ParsingNotStarted => lex.taken = Len(removed)
    /\ Len(lex.tokenQueue) <= lex.held
    /\ op \in {"Peek", "MustPeek"} => lex.held <= Max(Len(pre.tokenQueue), arg)
    /\ op \in {"Next", "MustNext", "Consume"} => lex.held <= Len(pre.tokenQueue)
    /\ op \in {"Parse", "parseExpression"} => lex.held <= Max(Len(pre.tokenQueue), 2)
    /\ op = "Parse" => lex.held <= 2

\* Parse built a call with two arguments: it held two entries at a time and
\* scanned the whole source.
C16_Witness ==
    /\ op = "Parse"
    /\ ~fatal
    /\ lex.held = 2
    /\ lex.scans >= 4
    /\ lex.taken >= 3

(***************************************************************************)
(* parseCall on its own: run on a fresh Lexer or after one Peek, on the    *)
(* sources of a session.                                                   *)
(***************************************************************************)
ParseCallAct ==
    /\ op \in {"New", "Peek"}
    /\ Parsed("parseCall", parseCall(src, Entered(lex)))

NextCall ==
    \/ op = "New" /\ PeekAct
    \/ ParseCallAct

SpecCall == InitSession /\ [][NextCall]_vars

(***************************************************************************)
(* C17: parseCall never fails because of the token standing in the         *)
(* opening-bracket or closing-bracket position: after the call's name it   *)
(* removes exactly one token whatever its kind, parses the argument list,  *)
(* removes exactly one more token whatever its kind, and returns the Call  *)
(* node with those arguments; only a failure to read the name or to parse  *)
(* an argument makes parseCall return an error.                            *)
(***************************************************************************)
\* What Next returns first on the Lexer parseCall found, and the Lexer with the
\* token after it removed too.
CallName == Next(src, pre)

AfterOpening == Next(src, CallName.lex).lex

CallArguments == parseArgs(src, AfterOpening)

AfterClosing == Next(src, CallArguments.lex).lex

NameRead == CallName.Error = "nil" /\ CallName.Token.Typ = "TokenName"

C17_BracketsNotRequired ==
    op = "parseCall" =>
        IF ~NameRead
        THEN ret.e = Nil /\ ret.err # "nil" /\ Fields(lex) = Fields(CallName.lex)
        ELSE IF IsFailed(CallArguments)
        THEN /\ ret = [e |-> Nil, err |-> CallArguments.err]
             /\ fatal = CallArguments.fatal
        ELSE /\ ret = [e |-> CallExpression(CallName.Token.Value, CallArguments.e),
                       err |-> "nil"]
             /\ ~fatal
             /\ Fields(lex) = Fields(AfterClosing)
             /\ AfterOpening.taken = pre.taken + 2
             /\ lex.taken = CallArguments.lex.taken + 1

\* parseCall returned a Call with an argument although neither token around the
\* argument list was a bracket.
C17_Witness ==
    /\ op = "parseCall"
    /\ ~fatal
    /\ ret.err = "nil"
    /\ Len(ret.e.Args) >= 1
    /\ Next(src, CallName.lex).Token.Typ # "TokenSquareBracketOpen"
    /\ Next(src, CallArguments.lex).Token.Typ # "TokenSquareBracketClose"

(***************************************************************************)
(* C18: Consume removes exactly the front entry of a non-empty buffer and  *)
(* is fatal on an empty one, and no input makes the parser hit that        *)
(* failure: every Consume call made during Parse (and parseExpression)     *)
(* happens while the lookahead buffer holds at least one entry.            *)
(***************************************************************************)
C18_ConsumeNeverStarved ==
    /\ op = "Consume" =>
          IF Len(pre.tokenQueue) = 0
          THEN fatal /\ Fields(lex) = Fields(pre) /\ lex.starved = 1
          ELSE /\ ~fatal
               /\ Fields(lex) = [Fields(pre) EXCEPT !.tokenQueue = Tail(@)]
               /\ lex.starved = 0
    /\ op \in {"Parse", "parseExpression"} => lex.starved = 0

\* Parse built a call with at least one argument, every token of which was
\* consumed from the buffer or taken from it by Next.
C18_Witness ==
    /\ op = "Parse"
    /\ ~fatal
    /\ ret.err = "nil"
    /\ lex.starved = 0
    /\ lex.taken >= 3
    /\ \E i \in 1..Len(ret.e.Expressions) : Len(ret.e.Expressions[i].Args) >= 1

(***************************************************************************)
(* C19: a helper definition is prepended only when the rendered main block *)
(* needs it: the builtin__print definition is in the output of String only *)
(* if the rendered main block holds a call to builtin__print, and the      *)
(* builtin__assoc definition only if the rendered main block holds a       *)
(* rendered Assoc, Has or Get expression.                                  *)
(***************************************************************************)
C19_HelpersOnlyWhenNeeded ==
    (op = "String" /\ ~fatal) =>
        /\ Holds(out, printPrintBuiltin[1]) => Holds(MainBlock, PrintForm)
        /\ Holds(out, printAssocBuiltin[1]) => \E x \in AssocForms : Holds(MainBlock, x)

====
